---------------------------- MODULE Spec2Model ----------------------------
(***************************************************************************)
(* A model of advanced-vector/vector.h: RawMemory<T>, a block of           *)
(* uninitialized storage, and Vector<T>, the container that constructs,    *)
(* moves, copies and destroys the objects living in such a block.          *)
(*                                                                         *)
(* The heap is a set of blocks; a block is a sequence of slots and a slot  *)
(* is either uninitialized or holds a live object with a value.  Every     *)
(* member function is an operator from a "world" (the heap, the Vector     *)
(* objects, the fault the element type or the allocator is about to        *)
(* raise) to the world it leaves, written statement by statement after     *)
(* the source.  An action applies one public member function to one        *)
(* Vector and commits the world it leaves.                                 *)
(*                                                                         *)
(* The element type T is a parameter of the template.  The model           *)
(* instantiates it with copy-constructible types whose move constructor    *)
(* is either noexcept or not (nothrowMove); its default constructor, copy  *)
(* constructor, copy assignment and move assignment may throw, its         *)
(* destructor does not.  A throwing element operation leaves the objects   *)
(* it was given as they were.                                              *)
(***************************************************************************)
EXTENDS Integers, Sequences, FiniteSets, TLC

\* ------------------------------------------------------------- bounds

\* Largest capacity a Vector of the single-Vector specification may reach.
MaxCap == 3

\* Largest capacity of the single-Vector sequence specification.
MaxCapSeq == 4

\* Largest capacity a Vector of the two-Vector specifications may reach.
MaxCapTwo == 2

\* Largest capacity of the single-Vector growth specification.
MaxCapGrow == 8

\* Element values are 0..MaxVal.
MaxVal == 1

\* Number of block addresses of the heap.
MaxBlocks == 3

\* ------------------------------------------------------ values and slots

\* The null pointer: T* buffer_ = nullptr.
Null == 0

\* The addresses operator new can return.
Blocks == 1..MaxBlocks

\* A slot of allocated storage that holds no object.
Uninit == -2

\* The value a moved-from object is left with.
MovedFrom == -1

\* The value of a value-initialized object, T().
DefaultVal == 0

\* A fault index no member function reaches: the element type throws nothing.
NoFault == 0 - 1

\* Vector objects of the program, and the local of copy assignment.
VecIds == {"A", "B"}
Objs == VecIds \cup {"rhs_copy"}

VARIABLES
    heap,         \* heap[b]: the slots of block b, <<>> when b is not allocated
    vec,          \* vec[o]: the Vector object o: alive, data_, size_
    nothrowMove,  \* std::is_nothrow_move_constructible_v<T>
    last,         \* the member function run last, its arguments and outcome
    rt,           \* monitor: an Insert at i answered by an Erase at i
    scen,         \* monitor: how far Vector A has followed the scenario
    pushOnly      \* monitor: the Vectors built by PushBack alone from empty

vars == <<heap, vec, nothrowMove, last, rt, scen, pushOnly>>

\* std::is_copy_constructible_v<T> of the element types instantiated here.
copyConstructible == TRUE

\* The condition of the two `if constexpr` of Reserve and of
\* EmplaceWithReallocation: transfer by move, else by copy.
TransferByMove(nm) == nm \/ ~copyConstructible

\* ----------------------------------------------------------- the heap

Min(a, b) == IF a < b THEN a ELSE b
Max(a, b) == IF a > b THEN a ELSE b

\* A dead or not yet constructed Vector object.
NoVector == [alive |-> FALSE, data_ |-> [buffer_ |-> Null, capacity_ |-> 0], size_ |-> 0]

\* The slot at offset i (from 0) of block b.
Get(h, b, i) == h[b][i + 1]

\* Block b with the slot at offset i set to x.
Put(h, b, i, x) == [h EXCEPT ![b][i + 1] = x]

\* Number of live objects in a sequence of slots.
LiveCount(slots) == Cardinality({i \in DOMAIN slots : slots[i] # Uninit})

\* operator new: the lowest address not in use.
FreshBlock(h) == CHOOSE b \in Blocks : h[b] = <<>> /\ \A c \in Blocks : h[c] = <<>> => b <= c

\* The world a member function runs in.
\*   f         index (from 0) of the throwing element operation that throws
\*   oom       operator new fails
\*   exc       the exception in flight: "none", "throw", "bad_alloc"
\*   freedLive objects that were live in a block when it was freed
\*   badFree   a block was freed that was not allocated
\*   asserted  an assert of RawMemory was evaluated and did not hold
World(h, v, nm, f, oom) ==
    [heap |-> h, vec |-> v, nm |-> nm, f |-> f, oom |-> oom, exc |-> "none",
     freedLive |-> 0, badFree |-> FALSE, asserted |-> FALSE]

\* How many of n throwing element operations run before the fault.
Done(w, n) == IF w.f = NoFault \/ w.f >= n THEN n ELSE w.f

\* The world after n throwing element operations of which k ran.
Spend(w, n, k) ==
    [w EXCEPT !.f = IF w.f = NoFault THEN NoFault ELSE w.f - k,
              !.exc = IF k < n THEN "throw" ELSE "none"]


\* ------------------------------------------------ the std algorithms

\* Slots [o, o + k) of block b set to x, lowest first.
RECURSIVE FillSlots(_, _, _, _, _)
FillSlots(h, b, o, k, x) ==
    IF k = 0 THEN h ELSE FillSlots(Put(h, b, o, x), b, o + 1, k - 1, x)

\* k objects copied, lowest first, from block sb at offset so to block db at
\* offset d: by copy construction or by copy assignment, the slot ends with
\* the source's value.
RECURSIVE CopySlots(_, _, _, _, _, _)
CopySlots(h, sb, so, db, d, k) ==
    IF k = 0 THEN h
    ELSE CopySlots(Put(h, db, d, Get(h, sb, so)), sb, so + 1, db, d + 1, k - 1)

\* k objects moved, lowest first: the target takes the value, the source is
\* left moved-from.
RECURSIVE MoveSlots(_, _, _, _, _, _)
MoveSlots(h, sb, so, db, d, k) ==
    IF k = 0 THEN h
    ELSE MoveSlots(Put(Put(h, db, d, Get(h, sb, so)), sb, so, MovedFrom),
                   sb, so + 1, db, d + 1, k - 1)

\* k objects moved, highest first: the object before offset sEnd goes to
\* the slot before offset dEnd, and so on downwards.
RECURSIVE MoveSlotsBackward(_, _, _, _, _)
MoveSlotsBackward(h, b, sEnd, dEnd, k) ==
    IF k = 0 THEN h
    ELSE MoveSlotsBackward(Put(Put(h, b, dEnd - 1, Get(h, b, sEnd - 1)), b, sEnd - 1, MovedFrom),
                           b, sEnd - 1, dEnd - 1, k - 1)

\* std::destroy_n(first, n), std::destroy_at(p) for n = 1: never throws.
DestroyN(w, b, o, n) == [w EXCEPT !.heap = FillSlots(w.heap, b, o, n, Uninit)]

\* std::uninitialized_value_construct_n without its clean-up.
UninitializedValueConstructNLeaky(w, b, o, n) ==
    LET k == Done(w, n)
    IN  [Spend(w, n, k) EXCEPT !.heap = FillSlots(w.heap, b, o, k, DefaultVal)]

\* std::uninitialized_value_construct_n(first, n): if a construction throws,
\* the objects already constructed are destroyed.
UninitializedValueConstructN(w, b, o, n) ==
    LET k == Done(w, n)
    IN  [Spend(w, n, k) EXCEPT
            !.heap = IF k = n THEN FillSlots(w.heap, b, o, n, DefaultVal)
                     ELSE FillSlots(FillSlots(w.heap, b, o, k, DefaultVal), b, o, k, Uninit)]

\* std::uninitialized_copy_n(first, n, d_first): if a copy throws, the
\* objects already constructed are destroyed.
UninitializedCopyN(w, sb, so, n, db, d) ==
    LET k == Done(w, n)
    IN  [Spend(w, n, k) EXCEPT
            !.heap = IF k = n THEN CopySlots(w.heap, sb, so, db, d, n)
                     ELSE FillSlots(CopySlots(w.heap, sb, so, db, d, k), db, d, k, Uninit)]

\* std::uninitialized_move_n(first, n, d_first): a noexcept move constructor
\* never throws; if a move throws, the objects already constructed are
\* destroyed and their sources stay moved-from.
UninitializedMoveN(w, sb, so, n, db, d) ==
    LET k == IF w.nm THEN n ELSE Done(w, n)
        u == IF w.nm THEN w ELSE Spend(w, n, k)
    IN  [u EXCEPT
            !.heap = IF k = n THEN MoveSlots(w.heap, sb, so, db, d, n)
                     ELSE FillSlots(MoveSlots(w.heap, sb, so, db, d, k), db, d, k, Uninit)]

\* std::copy(first, first + n, d_first): copy assignment, lowest first; the
\* assignments made before a throw stay made.
Copy(w, sb, so, n, db, d) ==
    LET k == Done(w, n)
    IN  [Spend(w, n, k) EXCEPT !.heap = CopySlots(w.heap, sb, so, db, d, k)]

\* std::move(first, first + n, d_first): move assignment, lowest first.
Move(w, b, so, n, d) ==
    LET k == Done(w, n)
    IN  [Spend(w, n, k) EXCEPT !.heap = MoveSlots(w.heap, b, so, b, d, k)]

\* std::move_backward(last - n, last, d_last): move assignment, highest first.
MoveBackward(w, b, sEnd, n, dEnd) ==
    LET k == Done(w, n)
    IN  [Spend(w, n, k) EXCEPT !.heap = MoveSlotsBackward(w.heap, b, sEnd, dEnd, k)]

\* ------------------------------------------------------- RawMemory<T>

\* Allocate(n): operator new for n != 0, else nullptr; operator new may
\* throw std::bad_alloc.  The world and the pointer returned.
Allocate(w, n) ==
    IF n = 0 THEN [w |-> w, p |-> Null]
    ELSE IF w.oom THEN [w |-> [w EXCEPT !.exc = "bad_alloc"], p |-> Null]
    ELSE [w |-> [w EXCEPT !.heap[FreshBlock(w.heap)] = [i \in 1..n |-> Uninit]],
          p |-> FreshBlock(w.heap)]

\* Deallocate(buf): operator delete; the objects in the block are not
\* destroyed.
Deallocate(w, buf) ==
    IF buf = Null THEN w
    ELSE IF w.heap[buf] = <<>> THEN [w EXCEPT !.badFree = TRUE]
    ELSE [w EXCEPT !.heap[buf] = <<>>,
                   !.freedLive = @ + LiveCount(w.heap[buf])]

\* RawMemory(size_t capacity): the world and the object constructed.
RawMemoryCtor(w, capacity) ==
    LET a == Allocate(w, capacity)
    IN  [w |-> a.w, rm |-> [buffer_ |-> a.p, capacity_ |-> capacity]]

\* RawMemory(RawMemory&& other) that forgets other.capacity_ = 0.
RawMemoryMoveCtorKeepCapacity(other) ==
    [self  |-> [buffer_ |-> other.buffer_, capacity_ |-> other.capacity_],
     other |-> [buffer_ |-> Null, capacity_ |-> other.capacity_]]

\* RawMemory(RawMemory&& other): the object constructed and the source.
RawMemoryMoveCtor(other) ==
    [self  |-> [buffer_ |-> other.buffer_, capacity_ |-> other.capacity_],
     other |-> [buffer_ |-> Null, capacity_ |-> 0]]

\* operator=(RawMemory&& rhs) that leaves rhs holding its block.
RawMemoryMoveAssignKeepRhs(w, self, rhs) ==
    [w    |-> Deallocate(w, self.buffer_),
     self |-> [buffer_ |-> rhs.buffer_, capacity_ |-> rhs.capacity_],
     rhs  |-> rhs]

\* operator=(RawMemory&& rhs) for this != &rhs: the block held is freed, the
\* block of rhs taken.
RawMemoryMoveAssign(w, self, rhs) ==
    [w    |-> Deallocate(w, self.buffer_),
     self |-> [buffer_ |-> rhs.buffer_, capacity_ |-> rhs.capacity_],
     rhs  |-> [buffer_ |-> Null, capacity_ |-> 0]]

\* ~RawMemory().
RawMemoryDtor(w, self) == Deallocate(w, self.buffer_)

\* RawMemory::operator+(offset): assert(offset <= capacity_).  offset is a
\* size_t: a value below zero stands for one that wrapped around.
RawMemoryPlus(w, self, offset) ==
    [w EXCEPT !.asserted = @ \/ ~(offset >= 0 /\ offset <= self.capacity_)]

\* RawMemory::operator[](index): assert(index < capacity_).
RawMemoryIndex(w, self, index) ==
    [w EXCEPT !.asserted = @ \/ ~(index >= 0 /\ index < self.capacity_)]

\* RawMemory::Swap(other) that swaps the pointers only.
RawMemorySwapBuffers(self, other) ==
    [self  |-> [buffer_ |-> other.buffer_, capacity_ |-> self.capacity_],
     other |-> [buffer_ |-> self.buffer_, capacity_ |-> other.capacity_]]

\* RawMemory::Swap(other).
RawMemorySwap(self, other) == [self |-> other, other |-> self]

\* ---------------------------------------------------------- Vector<T>

\* data_.GetAddress() of Vector o.
GetAddress(w, o) == w.vec[o].data_.buffer_

\* Vector::Size(), Vector::Capacity().
Size(w, o) == w.vec[o].size_
Capacity(w, o) == w.vec[o].data_.capacity_

\* The new capacity of a reallocating insertion without the growth.
NewCapacitySame(size) == IF size = 0 THEN 1 ELSE size + 1

\* size_t new_capacity = size_ == 0 ? 1 : size_ * 2;
NewCapacity(size) == IF size = 0 THEN 1 ELSE size * 2

\* The value the constructor arguments of an insertion denote when the new
\* element is constructed: a value of the caller's, or (arg.ref) the element
\* at index arg.x of the block the Vector held when the call was made.
ArgValue(w, b, arg) == IF arg.ref THEN Get(w.heap, b, arg.x) ELSE arg.x

\* new (p) T(args...): one construction, which may throw.
ConstructAt(w, b, o, x) ==
    LET k == Done(w, 1)
    IN  [Spend(w, 1, k) EXCEPT !.heap = IF k = 1 THEN Put(w.heap, b, o, x) ELSE w.heap]

\* *p = x, *p = std::move(x): one assignment, which may throw.
AssignAt(w, b, o, x) ==
    LET k == Done(w, 1)
    IN  [Spend(w, 1, k) EXCEPT !.heap = IF k = 1 THEN Put(w.heap, b, o, x) ELSE w.heap]

\* The transfer of n elements to a new block always by move, whatever the
\* element type.
TransferMove(w, sb, so, n, db, d) == UninitializedMoveN(w, sb, so, n, db, d)

\* The transfer of n elements to a new block in Reserve and in
\* EmplaceWithReallocation: the `if constexpr` on the element type.
Transfer(w, sb, so, n, db, d) ==
    IF TransferByMove(w.nm) THEN UninitializedMoveN(w, sb, so, n, db, d)
    ELSE UninitializedCopyN(w, sb, so, n, db, d)

\* Vector() = default.
VectorDefault(w, o) ==
    [w EXCEPT !.vec[o] = [alive |-> TRUE, data_ |-> [buffer_ |-> Null, capacity_ |-> 0],
                          size_ |-> 0]]

\* Vector(size_t size) whose construction loop does not clean up.
VectorSizedLeaky(w, o, size) ==
    LET r == RawMemoryCtor(w, size)
        c == UninitializedValueConstructNLeaky(r.w, r.rm.buffer_, 0, size)
    IN  IF r.w.exc # "none" THEN r.w
        ELSE IF c.exc # "none" THEN RawMemoryDtor(c, r.rm)
        ELSE [c EXCEPT !.vec[o] = [alive |-> TRUE, data_ |-> r.rm, size_ |-> size]]

\* explicit Vector(size_t size).  When a construction throws, the member
\* data_, already constructed, is destroyed and the Vector never lived.
VectorSized(w, o, size) ==
    LET r == RawMemoryCtor(w, size)
        c == UninitializedValueConstructN(r.w, r.rm.buffer_, 0, size)
    IN  IF r.w.exc # "none" THEN r.w
        ELSE IF c.exc # "none" THEN RawMemoryDtor(c, r.rm)
        ELSE [c EXCEPT !.vec[o] = [alive |-> TRUE, data_ |-> r.rm, size_ |-> size]]

\* Vector(const Vector& other) that sizes its block by other's capacity.
VectorCopyCap(w, o, other) ==
    LET r == RawMemoryCtor(w, Capacity(w, other))
        c == UninitializedCopyN(r.w, GetAddress(w, other), 0, Size(w, other), r.rm.buffer_, 0)
    IN  IF r.w.exc # "none" THEN r.w
        ELSE IF c.exc # "none" THEN RawMemoryDtor(c, r.rm)
        ELSE [c EXCEPT !.vec[o] = [alive |-> TRUE, data_ |-> r.rm, size_ |-> Size(w, other)]]

\* Vector(const Vector& other).
VectorCopy(w, o, other) ==
    LET r == RawMemoryCtor(w, Size(w, other))
        c == UninitializedCopyN(r.w, GetAddress(w, other), 0, Size(w, other), r.rm.buffer_, 0)
    IN  IF r.w.exc # "none" THEN r.w
        ELSE IF c.exc # "none" THEN RawMemoryDtor(c, r.rm)
        ELSE [c EXCEPT !.vec[o] = [alive |-> TRUE, data_ |-> r.rm, size_ |-> Size(w, other)]]

\* Vector(Vector&& other) that leaves other.size_ as it was.
VectorMoveKeepSize(w, o, other) ==
    LET m == RawMemoryMoveCtor(w.vec[other].data_)
    IN  [w EXCEPT !.vec[o] = [alive |-> TRUE, data_ |-> m.self, size_ |-> Size(w, other)],
                  !.vec[other].data_ = m.other]

\* Vector(Vector&& other) noexcept.
VectorMove(w, o, other) ==
    LET m == RawMemoryMoveCtor(w.vec[other].data_)
    IN  [w EXCEPT !.vec[o] = [alive |-> TRUE, data_ |-> m.self, size_ |-> Size(w, other)],
                  !.vec[other].data_ = m.other,
                  !.vec[other].size_ = 0]

\* ~Vector(), then the destructor of the member data_.
VectorDtor(w, o) ==
    LET d == DestroyN(w, GetAddress(w, o), 0, Size(w, o))
    IN  [RawMemoryDtor(d, d.vec[o].data_) EXCEPT !.vec[o] = NoVector]

\* Vector::Swap(other).
Swap(w, o, other) ==
    LET s == RawMemorySwap(w.vec[o].data_, w.vec[other].data_)
    IN  IF o = other THEN w
        ELSE [w EXCEPT !.vec[o].data_ = s.self, !.vec[other].data_ = s.other,
                       !.vec[o].size_ = Size(w, other), !.vec[other].size_ = Size(w, o)]

\* Vector::operator=(const Vector& rhs) that, when it must reallocate,
\* destroys its elements before it builds the copy.
CopyAssignDestroyFirst(w, o, rhs) ==
    LET e == [DestroyN(w, GetAddress(w, o), 0, Size(w, o)) EXCEPT !.vec[o].size_ = 0]
        c == VectorCopy(e, "rhs_copy", rhs)
        s == VectorDtor(Swap(c, o, "rhs_copy"), "rhs_copy")
        count_to_copy == Min(Size(w, o), Size(w, rhs))
        a == Copy(w, GetAddress(w, rhs), 0, count_to_copy, GetAddress(w, o), 0)
        d == DestroyN(a, GetAddress(w, o), Size(w, rhs), Size(w, o) - Size(w, rhs))
        u == UninitializedCopyN(a, GetAddress(w, rhs), Size(w, o), Size(w, rhs) - Size(w, o),
                                GetAddress(w, o), Size(w, o))
    IN  IF o = rhs THEN w
        ELSE IF Size(w, rhs) > Capacity(w, o)
             THEN IF c.exc # "none" THEN c ELSE s
        ELSE IF a.exc # "none" THEN a
        ELSE IF Size(w, rhs) < Size(w, o) THEN [d EXCEPT !.vec[o].size_ = Size(w, rhs)]
        ELSE IF Size(w, rhs) > Size(w, o)
             THEN IF u.exc # "none" THEN u ELSE [u EXCEPT !.vec[o].size_ = Size(w, rhs)]
        ELSE [a EXCEPT !.vec[o].size_ = Size(w, rhs)]

\* Vector::operator=(const Vector& rhs) by copy and swap whatever the
\* capacity.
CopyAssignAlwaysSwap(w, o, rhs) ==
    LET c == VectorCopy(w, "rhs_copy", rhs)
        s == VectorDtor(Swap(c, o, "rhs_copy"), "rhs_copy")
    IN  IF o = rhs THEN w
        ELSE IF c.exc # "none" THEN c ELSE s

\* Vector::operator=(const Vector& rhs).
CopyAssign(w, o, rhs) ==
    LET \* the branch of rhs.size_ > Capacity()
        c == VectorCopy(w, "rhs_copy", rhs)
        s == VectorDtor(Swap(c, o, "rhs_copy"), "rhs_copy")
        \* the branch without reallocation
        count_to_copy == Min(Size(w, o), Size(w, rhs))
        a == Copy(w, GetAddress(w, rhs), 0, count_to_copy, GetAddress(w, o), 0)
        d == DestroyN(a, GetAddress(w, o), Size(w, rhs), Size(w, o) - Size(w, rhs))
        u == UninitializedCopyN(a, GetAddress(w, rhs), Size(w, o), Size(w, rhs) - Size(w, o),
                                GetAddress(w, o), Size(w, o))
    IN  IF o = rhs THEN w
        ELSE IF Size(w, rhs) > Capacity(w, o)
             THEN IF c.exc # "none" THEN c ELSE s
        ELSE IF a.exc # "none" THEN a
        ELSE IF Size(w, rhs) < Size(w, o) THEN [d EXCEPT !.vec[o].size_ = Size(w, rhs)]
        ELSE IF Size(w, rhs) > Size(w, o)
             THEN IF u.exc # "none" THEN u ELSE [u EXCEPT !.vec[o].size_ = Size(w, rhs)]
        ELSE [a EXCEPT !.vec[o].size_ = Size(w, rhs)]

\* Vector::operator=(Vector&& rhs) without the test for self-assignment (the
\* test of RawMemory::operator= still keeps the block).
MoveAssignNoSelfTest(w, o, rhs) ==
    LET m == RawMemoryMoveAssign(w, w.vec[o].data_, w.vec[rhs].data_)
    IN  IF o = rhs THEN [w EXCEPT !.vec[o].size_ = 0]
        ELSE [m.w EXCEPT !.vec[o].data_ = m.self, !.vec[o].size_ = Size(w, rhs),
                         !.vec[rhs].data_ = m.rhs, !.vec[rhs].size_ = 0]

\* Vector::operator=(Vector&& rhs) noexcept.  The elements this Vector holds
\* are not destroyed before data_ is assigned to.
MoveAssign(w, o, rhs) ==
    LET m == RawMemoryMoveAssign(w, w.vec[o].data_, w.vec[rhs].data_)
    IN  IF o = rhs THEN w
        ELSE [m.w EXCEPT !.vec[o].data_ = m.self, !.vec[o].size_ = Size(w, rhs),
                         !.vec[rhs].data_ = m.rhs, !.vec[rhs].size_ = 0]

\* Vector::operator[](index) = x: the reference returned is assigned to.
IndexAssign(w, o, index, x) ==
    AssignAt(RawMemoryIndex(w, w.vec[o].data_, index), GetAddress(w, o), index, x)

\* Vector::Reserve(new_capacity) that destroys the elements before it
\* allocates the new block.
ReserveDestroyFirst(w, o, new_capacity) ==
    LET d0 == DestroyN(w, GetAddress(w, o), 0, Size(w, o))
        r == RawMemoryCtor(d0, new_capacity)
        t == Transfer(r.w, GetAddress(w, o), 0, Size(w, o), r.rm.buffer_, 0)
        s == RawMemorySwap(w.vec[o].data_, r.rm)
    IN  IF new_capacity <= Capacity(w, o) THEN w
        ELSE IF r.w.exc # "none" THEN r.w
        ELSE IF t.exc # "none" THEN RawMemoryDtor(t, r.rm)
        ELSE RawMemoryDtor([t EXCEPT !.vec[o].data_ = s.self], s.other)

\* Vector::Reserve(new_capacity) without std::destroy_n on the old block.
ReserveNoDestroy(w, o, new_capacity) ==
    LET r == RawMemoryCtor(w, new_capacity)
        t == Transfer(r.w, GetAddress(w, o), 0, Size(w, o), r.rm.buffer_, 0)
        s == RawMemorySwap(w.vec[o].data_, r.rm)
    IN  IF new_capacity <= Capacity(w, o) THEN w
        ELSE IF r.w.exc # "none" THEN r.w
        ELSE IF t.exc # "none" THEN RawMemoryDtor(t, r.rm)
        ELSE RawMemoryDtor([t EXCEPT !.vec[o].data_ = s.self], s.other)

\* Vector::Reserve(new_capacity).  The local new_data holds the old block
\* after the swap and frees it when it goes out of scope.
Reserve(w, o, new_capacity) ==
    LET r == RawMemoryCtor(w, new_capacity)
        t == Transfer(r.w, GetAddress(w, o), 0, Size(w, o), r.rm.buffer_, 0)
        d == DestroyN(t, GetAddress(w, o), 0, Size(w, o))
        s == RawMemorySwap(w.vec[o].data_, r.rm)
    IN  IF new_capacity <= Capacity(w, o) THEN w
        ELSE IF r.w.exc # "none" THEN r.w
        ELSE IF t.exc # "none" THEN RawMemoryDtor(t, r.rm)
        ELSE RawMemoryDtor([d EXCEPT !.vec[o].data_ = s.self], s.other)

\* Vector::Resize(new_size) that shrinks without std::destroy_n.
ResizeNoDestroy(w, o, new_size) ==
    LET r == Reserve(w, o, new_size)
        c == UninitializedValueConstructN(r, GetAddress(r, o), Size(w, o), new_size - Size(w, o))
    IN  IF new_size < Size(w, o) THEN [w EXCEPT !.vec[o].size_ = new_size]
        ELSE IF r.exc # "none" THEN r
        ELSE IF c.exc # "none" THEN c
        ELSE [c EXCEPT !.vec[o].size_ = new_size]

\* Vector::Resize(new_size).
Resize(w, o, new_size) ==
    LET d == DestroyN(w, GetAddress(w, o), new_size, Size(w, o) - new_size)
        r == Reserve(w, o, new_size)
        c == UninitializedValueConstructN(r, GetAddress(r, o), Size(w, o), new_size - Size(w, o))
    IN  IF new_size < Size(w, o) THEN [d EXCEPT !.vec[o].size_ = new_size]
        ELSE IF r.exc # "none" THEN r
        ELSE IF c.exc # "none" THEN c
        ELSE [c EXCEPT !.vec[o].size_ = new_size]

\* Vector::PopBack().
PopBack(w, o) ==
    [DestroyN(w, GetAddress(w, o), Size(w, o) - 1, 1) EXCEPT !.vec[o].size_ = @ - 1]

\* Vector::Erase(pos) that destroys the last element without the shift.
EraseLast(w, o, index) ==
    [DestroyN(w, GetAddress(w, o), Size(w, o) - 1, 1) EXCEPT !.vec[o].size_ = @ - 1]

\* Vector::Erase(pos), index = pos - begin().
Erase(w, o, index) ==
    LET m == Move(w, GetAddress(w, o), index + 1, Size(w, o) - index - 1, index)
    IN  IF m.exc # "none" THEN m
        ELSE [DestroyN(m, GetAddress(w, o), Size(w, o) - 1, 1) EXCEPT !.vec[o].size_ = @ - 1]

\* Vector::EmplaceWithReallocation(pos, args...), index = pos - begin().
\* The new element is constructed first in the new block; a throw of the
\* transfers after it unwinds through ~RawMemory() of new_data alone.
EmplaceWithReallocation(w, o, index, arg) ==
    LET size == Size(w, o)
        old  == GetAddress(w, o)
        r  == RawMemoryCtor(w, NewCapacity(size))
        c  == ConstructAt(RawMemoryPlus(r.w, r.rm, index), r.rm.buffer_, index,
                          ArgValue(r.w, old, arg))
        t1 == Transfer(c, old, 0, index, r.rm.buffer_, 0)
        t2 == Transfer(t1, old, index, size - index, r.rm.buffer_, index + 1)
        d  == DestroyN(t2, old, 0, size)
        s  == RawMemorySwap(w.vec[o].data_, r.rm)
    IN  IF r.w.exc # "none" THEN r.w
        ELSE IF c.exc # "none" THEN RawMemoryDtor(c, r.rm)
        ELSE IF t1.exc # "none" THEN RawMemoryDtor(t1, r.rm)
        ELSE IF t2.exc # "none" THEN RawMemoryDtor(t2, r.rm)
        ELSE RawMemoryDtor([d EXCEPT !.vec[o].data_ = s.self, !.vec[o].size_ = size + 1],
                           s.other)

\* The move construction of the last element into the slot after it:
\* new (data_.GetAddress() + size_) T(std::move(data_[size_ - 1])).
MoveLastUp(w, b, size) ==
    LET k == IF w.nm THEN 1 ELSE Done(w, 1)
        u == IF w.nm THEN w ELSE Spend(w, 1, k)
    IN  [u EXCEPT !.heap = IF k = 1 THEN MoveSlots(w.heap, b, size - 1, b, size, 1)
                           ELSE w.heap]

\* EmplaceWithoutReallocation that shifts the elements from the insertion
\* point on, lowest first.
EmplaceWithoutReallocationForward(w, o, index, arg) ==
    LET size == Size(w, o)
        b    == GetAddress(w, o)
        e  == ConstructAt(w, b, size, ArgValue(w, b, arg))
        k  == Done(w, 1)
        t  == Spend(w, 1, k)
        m1 == MoveLastUp(t, b, size)
        m2 == Move(m1, b, index, size - 1 - index, index + 1)
        a  == AssignAt(m2, b, index, ArgValue(w, b, arg))
    IN  IF size = index
        THEN IF e.exc # "none" THEN e ELSE [e EXCEPT !.vec[o].size_ = size + 1]
        ELSE IF t.exc # "none" THEN t
        ELSE IF m1.exc # "none" THEN m1
        ELSE IF m2.exc # "none" THEN m2
        ELSE IF a.exc # "none" THEN a
        ELSE [a EXCEPT !.vec[o].size_ = size + 1]

\* EmplaceWithoutReallocation without temp_obj: the element at the
\* insertion point is assigned from the argument after the shift.
EmplaceWithoutReallocationNoTemp(w, o, index, arg) ==
    LET size == Size(w, o)
        b    == GetAddress(w, o)
        e  == ConstructAt(w, b, size, ArgValue(w, b, arg))
        m1 == MoveLastUp(w, b, size)
        m2 == MoveBackward(m1, b, size - 1, size - 1 - index, size)
        a  == AssignAt(m2, b, index, ArgValue(m2, b, arg))
    IN  IF size = index
        THEN IF e.exc # "none" THEN e ELSE [e EXCEPT !.vec[o].size_ = size + 1]
        ELSE IF m1.exc # "none" THEN m1
        ELSE IF m2.exc # "none" THEN m2
        ELSE IF a.exc # "none" THEN a
        ELSE [a EXCEPT !.vec[o].size_ = size + 1]

\* Vector::EmplaceWithoutReallocation(pos, args...), index = pos - begin().
\*   e   new (data_ + size_) T(args...)                    at the end
\*   t   T temp_obj(args...)                               else
\*   m1  the last element move-constructed one slot up
\*   m2  std::move_backward(begin() + index, end() - 1, end())
\*   a   data_[index] = std::move(temp_obj)
\* size_ is incremented only when all of them succeeded.
EmplaceWithoutReallocation(w, o, index, arg) ==
    LET size == Size(w, o)
        b    == GetAddress(w, o)
        data == w.vec[o].data_
        e  == ConstructAt(RawMemoryPlus(w, data, size), b, size, ArgValue(w, b, arg))
        k  == Done(w, 1)
        t  == Spend(w, 1, k)
        m1 == MoveLastUp(RawMemoryIndex(t, data, size - 1), b, size)
        m2 == MoveBackward(m1, b, size - 1, size - 1 - index, size)
        a  == AssignAt(RawMemoryIndex(m2, data, index), b, index, ArgValue(w, b, arg))
    IN  IF size = index
        THEN IF e.exc # "none" THEN e ELSE [e EXCEPT !.vec[o].size_ = size + 1]
        ELSE IF t.exc # "none" THEN t
        ELSE IF m1.exc # "none" THEN m1
        ELSE IF m2.exc # "none" THEN m2
        ELSE IF a.exc # "none" THEN a
        ELSE [a EXCEPT !.vec[o].size_ = size + 1]

\* Vector::Emplace(pos, args...); Insert, PushBack and EmplaceBack forward to
\* it (PushBack and EmplaceBack with pos = end()).
Emplace(w, o, index, arg) ==
    IF Size(w, o) = Capacity(w, o) THEN EmplaceWithReallocation(w, o, index, arg)
    ELSE EmplaceWithoutReallocation(w, o, index, arg)

\* ------------------------------------------------------------ reading

\* The elements of Vector o read by operator[] at 0 .. Size() - 1.
Elems(h, vc, o) == [j \in 1..vc[o].size_ |-> Get(h, vc[o].data_.buffer_, j - 1)]

\* The sequence s with x inserted before offset i, and with offset i removed.
InsertAt(s, i, x) == SubSeq(s, 1, i) \o <<x>> \o SubSeq(s, i + 1, Len(s))
RemoveAt(s, i) == SubSeq(s, 1, i) \o SubSeq(s, i + 2, Len(s))

\* ----------------------------------------------------------- monitors

RtIdle == [stage |-> 0, v |-> "-", i |-> 0, orig |-> <<>>, realloc |-> FALSE]

\* An Insert at offset i that returned starts a round trip (stage 1, with the
\* elements before it); an Erase at the same offset of the same Vector next
\* completes it (stage 2); anything else ends it.
RtNext(op, v, i, out) ==
    IF op = "Insert" /\ out = "none"
    THEN [stage |-> 1, v |-> v, i |-> i, orig |-> Elems(heap, vec, v),
          realloc |-> vec[v].size_ = vec[v].data_.capacity_]
    ELSE IF op = "Erase" /\ out = "none" /\ rt.stage = 1 /\ rt.v = v /\ rt.i = i
    THEN [rt EXCEPT !.stage = 2]
    ELSE RtIdle

\* The scenario: PushBack(1), PushBack(2), PushBack(3), Erase(begin() + 1),
\* Insert(begin() + 1, 5) on a Vector that starts empty.
ScenSteps ==
    << [op |-> "PushBack", i |-> 0, x |-> 1],
       [op |-> "PushBack", i |-> 0, x |-> 2],
       [op |-> "PushBack", i |-> 0, x |-> 3],
       [op |-> "Erase",    i |-> 1, x |-> 0],
       [op |-> "Insert",   i |-> 1, x |-> 5] >>

\* scen counts the steps of the scenario Vector A has taken since it was
\* default-constructed, -1 once it left the scenario.
ScenNext(op, v, other, i, x, out) ==
    IF "A" \notin {v, other} THEN scen
    ELSE IF op = "Vector()" /\ v = "A" THEN 0
    ELSE IF /\ scen \in 0..(Len(ScenSteps) - 1)
            /\ v = "A" /\ out = "none"
            /\ ScenSteps[scen + 1] = [op |-> op, i |-> i, x |-> x]
         THEN scen + 1
    ELSE -1

\* pushOnly[o]: o was default-constructed and since then only PushBack was
\* called on it, and returned.
PushOnlyNext(op, v, other, out) ==
    [o \in VecIds |->
        IF o \notin {v, other} THEN pushOnly[o]
        ELSE IF o = v /\ op = "Vector()" THEN TRUE
        ELSE IF o = v /\ op = "PushBack" /\ out = "none" THEN pushOnly[o]
        ELSE FALSE]

\* ------------------------------------------------------------ actions

\* The element operation that throws, if any: its index among the throwing
\* element operations of the call.
Faults == {NoFault} \cup (0..(Max(MaxCap, MaxCapTwo) + 1))

\* An insertion argument that is a value of the caller's.
Val(x) == [ref |-> FALSE, x |-> x]

\* An insertion argument that is a reference to the element v[j] of the
\* Vector inserted into.
Ref(j) == [ref |-> TRUE, x |-> j]

\* The world before a call with the faults f and oom ahead.
Before(f, oom) == World(heap, vec, nothrowMove, f, oom)

\* The call ran as far as the fault chosen for it, or there was none.
Reached(w, f, oom) ==
    /\ f # NoFault => w.exc = "throw"
    /\ oom => w.exc = "bad_alloc"

\* The blocks of S, lowest address first.
RECURSIVE Ascending(_)
Ascending(S) ==
    IF S = {} THEN <<>>
    ELSE LET m == CHOOSE a \in S : \A b \in S : a <= b
         IN  <<m>> \o Ascending(S \ {m})

\* Addresses carry no meaning: a state stands for all its renamings.  The
\* one kept gives the block of A the lowest address, then the block of B,
\* then the others: the block order[k] is renamed k.
Canon(vc) ==
    LET a == vc["A"].data_.buffer_
        b == vc["B"].data_.buffer_
    IN  (IF a # Null THEN <<a>> ELSE <<>>)
        \o (IF b # Null /\ b # a THEN <<b>> ELSE <<>>)
        \o Ascending(Blocks \ {a, b})

Rename(order, b) == IF b = Null THEN Null ELSE CHOOSE k \in Blocks : order[k] = b

\* The state after a call: the world it left, its addresses renamed, what
\* was called and how it ended.  m.cap bounds the capacities of the model.
\* Unless m.obs, a call on one Vector is recorded as a "call" on it, its
\* outcome and whether it freed a block twice or failed an assert, and the
\* monitors rest.
\* moved: the call left v with another block than it had.
Commit(w, m, op, v, other, i, x, f) ==
    /\ \A o \in VecIds : w.vec[o].data_.capacity_ <= m.cap
    /\ LET order == Canon(w.vec)
       IN  /\ heap' = [k \in Blocks |-> w.heap[order[k]]]
           /\ vec' = [o \in Objs |->
                        [w.vec[o] EXCEPT !.data_.buffer_ = Rename(order, w.vec[o].data_.buffer_)]]
    /\ nothrowMove' = nothrowMove
    /\ last' = IF m.obs \/ other # "-"
               THEN [op |-> op, v |-> v, other |-> other, i |-> i, x |-> x, f |-> f,
                     out |-> w.exc, freedLive |-> w.freedLive, badFree |-> w.badFree,
                     asserted |-> w.asserted,
                     moved |-> w.vec[v].data_.buffer_ # vec[v].data_.buffer_]
               ELSE [op |-> "call", v |-> v, other |-> other, i |-> 0, x |-> 0, f |-> NoFault,
                     out |-> w.exc, freedLive |-> 0, badFree |-> w.badFree,
                     asserted |-> w.asserted, moved |-> FALSE]
    /\ rt' = IF m.obs THEN RtNext(op, v, i, w.exc) ELSE RtIdle
    /\ scen' = IF m.obs THEN ScenNext(op, v, other, i, x, w.exc) ELSE -1
    /\ pushOnly' = IF m.obs THEN PushOnlyNext(op, v, other, w.exc)
                   ELSE [o \in VecIds |-> FALSE]

\* Vector<T> v;
DefaultConstruct(v, m) ==
    /\ ~vec[v].alive
    /\ Commit(VectorDefault(Before(NoFault, FALSE), v), m, "Vector()", v, "-", 0, 0, NoFault)

\* Vector<T> v(n);
SizedConstruct(v, n, f, oom, m) ==
    /\ ~vec[v].alive
    /\ LET w == VectorSized(Before(f, oom), v, n)
       IN  Reached(w, f, oom) /\ Commit(w, m, "Vector(size)", v, "-", n, 0, f)

\* Vector<T> v(other);
CopyConstruct(v, other, f, oom, m) ==
    /\ ~vec[v].alive /\ vec[other].alive
    /\ LET w == VectorCopy(Before(f, oom), v, other)
       IN  Reached(w, f, oom) /\ Commit(w, m, "Vector(copy)", v, other, 0, 0, f)

\* Vector<T> v(std::move(other));
MoveConstruct(v, other, m) ==
    /\ ~vec[v].alive /\ vec[other].alive
    /\ Commit(VectorMove(Before(NoFault, FALSE), v, other), m, "Vector(move)", v, other, 0, 0, NoFault)

\* v goes out of scope.
Destroy(v, m) ==
    /\ vec[v].alive
    /\ Commit(VectorDtor(Before(NoFault, FALSE), v), m, "~Vector", v, "-", 0, 0, NoFault)

\* v = rhs;
CopyAssignment(v, rhs, f, oom, m) ==
    /\ vec[v].alive /\ vec[rhs].alive
    /\ LET w == CopyAssign(Before(f, oom), v, rhs)
       IN  Reached(w, f, oom) /\ Commit(w, m, "copy=", v, rhs, 0, 0, f)

\* v = std::move(rhs);
MoveAssignment(v, rhs, m) ==
    /\ vec[v].alive /\ vec[rhs].alive
    /\ Commit(MoveAssign(Before(NoFault, FALSE), v, rhs), m, "move=", v, rhs, 0, 0, NoFault)

\* v.Swap(other);
CallSwap(v, other, m) ==
    /\ vec[v].alive /\ vec[other].alive
    /\ Commit(Swap(Before(NoFault, FALSE), v, other), m, "Swap", v, other, 0, 0, NoFault)

\* v.Reserve(c);
CallReserve(v, c, f, oom, m) ==
    /\ vec[v].alive
    /\ LET w == Reserve(Before(f, oom), v, c)
       IN  Reached(w, f, oom) /\ Commit(w, m, "Reserve", v, "-", c, 0, f)

\* v.Resize(n);
CallResize(v, n, f, oom, m) ==
    /\ vec[v].alive
    /\ LET w == Resize(Before(f, oom), v, n)
       IN  Reached(w, f, oom) /\ Commit(w, m, "Resize", v, "-", n, 0, f)

\* v.PushBack(x); EmplaceBack(x) forwards to Emplace(end(), x).
PushBack(v, x, f, oom, m) ==
    /\ vec[v].alive
    /\ LET w == Emplace(Before(f, oom), v, vec[v].size_, Val(x))
       IN  Reached(w, f, oom) /\ Commit(w, m, "PushBack", v, "-", 0, x, f)

\* v.PopBack(); the Vector is not empty.
CallPopBack(v, m) ==
    /\ vec[v].alive /\ vec[v].size_ > 0
    /\ Commit(PopBack(Before(NoFault, FALSE), v), m, "PopBack", v, "-", 0, 0, NoFault)

\* v.Insert(v.begin() + i, x); begin() <= pos <= end().
Insert(v, i, x, f, oom, m) ==
    /\ vec[v].alive /\ i <= vec[v].size_
    /\ LET w == Emplace(Before(f, oom), v, i, Val(x))
       IN  Reached(w, f, oom) /\ Commit(w, m, "Insert", v, "-", i, x, f)

\* v.PushBack(v[j]); j < Size().
PushBackRef(v, j, f, oom, m) ==
    /\ vec[v].alive /\ j < vec[v].size_
    /\ LET w == Emplace(Before(f, oom), v, vec[v].size_, Ref(j))
       IN  Reached(w, f, oom) /\ Commit(w, m, "PushBackRef", v, "-", 0, j, f)

\* v.Insert(v.begin() + i, v[j]); begin() <= pos <= end(), j < Size().
InsertRef(v, i, j, f, oom, m) ==
    /\ vec[v].alive /\ i <= vec[v].size_ /\ j < vec[v].size_
    /\ LET w == Emplace(Before(f, oom), v, i, Ref(j))
       IN  Reached(w, f, oom) /\ Commit(w, m, "InsertRef", v, "-", i, j, f)

\* v.Erase(v.begin() + i); begin() <= pos < end().
CallErase(v, i, f, m) ==
    /\ vec[v].alive /\ i < vec[v].size_
    /\ LET w == Erase(Before(f, FALSE), v, i)
       IN  Reached(w, f, FALSE) /\ Commit(w, m, "Erase", v, "-", i, 0, f)

\* v[i] = x; i < Size().
Write(v, i, x, f, m) ==
    /\ vec[v].alive /\ i < vec[v].size_
    /\ LET w == IndexAssign(Before(f, FALSE), v, i, x)
       IN  Reached(w, f, FALSE) /\ Commit(w, m, "write", v, "-", i, x, f)

\* ------------------------------------------------------ specifications

Init ==
    /\ heap = [b \in Blocks |-> <<>>]
    /\ vec = [o \in Objs |-> NoVector]
    /\ nothrowMove \in BOOLEAN
    /\ last = [op |-> "start", v |-> "-", other |-> "-", i |-> 0, x |-> 0, f |-> NoFault,
               out |-> "none", freedLive |-> 0, badFree |-> FALSE, asserted |-> FALSE,
               moved |-> FALSE]
    /\ rt = RtIdle
    /\ scen = -1
    /\ pushOnly = [o \in VecIds |-> FALSE]

\* The calls on one Vector, with capacities up to m.cap, values from vals
\* and faults from F and OOM.
One(v, m, vals, F, OOM) ==
    \/ DefaultConstruct(v, m)
    \/ \E n \in 0..m.cap, f \in F, oom \in OOM : SizedConstruct(v, n, f, oom, m)
    \/ Destroy(v, m)
    \/ \E c \in 0..m.cap, f \in F, oom \in OOM : CallReserve(v, c, f, oom, m)
    \/ \E n \in 0..m.cap, f \in F, oom \in OOM : CallResize(v, n, f, oom, m)
    \/ \E x \in vals, f \in F, oom \in OOM : PushBack(v, x, f, oom, m)
    \/ CallPopBack(v, m)
    \/ \E i \in 0..m.cap, x \in vals, f \in F, oom \in OOM : Insert(v, i, x, f, oom, m)
    \/ \E i \in 0..m.cap, f \in F : CallErase(v, i, f, m)
    \/ \E i \in 0..m.cap, x \in vals, f \in F : Write(v, i, x, f, m)

\* The calls on two Vectors.
Two(v, other, m, F, OOM) ==
    \/ v # other /\ \E f \in F, oom \in OOM : CopyConstruct(v, other, f, oom, m)
    \/ v # other /\ MoveConstruct(v, other, m)
    \/ \E f \in F, oom \in OOM : CopyAssignment(v, other, f, oom, m)
    \/ MoveAssignment(v, other, m)
    \/ CallSwap(v, other, m)

\* The calls that edit the element sequence of one Vector.
Edit(v, m, vals) ==
    \/ DefaultConstruct(v, m)
    \/ \E n \in 0..m.cap : CallResize(v, n, NoFault, FALSE, m)
    \/ \E x \in vals : PushBack(v, x, NoFault, FALSE, m)
    \/ CallPopBack(v, m)
    \/ \E i \in 0..m.cap, x \in vals : Insert(v, i, x, NoFault, FALSE, m)
    \/ \E i \in 0..m.cap : CallErase(v, i, NoFault, m)

\* Two Vectors, every call, every fault.
Next ==
    \/ \E v \in VecIds : One(v, [cap |-> MaxCapTwo, obs |-> FALSE], 0..MaxVal, Faults, BOOLEAN)
    \/ \E v \in VecIds, other \in VecIds :
            Two(v, other, [cap |-> MaxCapTwo, obs |-> FALSE], Faults, BOOLEAN)

Spec == Init /\ [][Next]_vars

\* Two Vectors, every call, no exception thrown.
NextNoThrow ==
    \/ \E v \in VecIds : One(v, [cap |-> MaxCapTwo, obs |-> FALSE], 0..MaxVal, {NoFault}, {FALSE})
    \/ \E v \in VecIds, other \in VecIds :
            Two(v, other, [cap |-> MaxCapTwo, obs |-> FALSE], {NoFault}, {FALSE})

SpecNoThrow == Init /\ [][NextNoThrow]_vars

\* One Vector, every call on it, every fault.
NextOne == One("A", [cap |-> MaxCap, obs |-> TRUE], 0..MaxVal, Faults, BOOLEAN)

SpecOne == Init /\ [][NextOne]_vars

\* One Vector holding default values, no exception thrown, capacities up to
\* MaxCapGrow.
NextGrow == One("A", [cap |-> MaxCapGrow, obs |-> TRUE], {DefaultVal}, {NoFault}, {FALSE})

SpecGrow == Init /\ [][NextGrow]_vars

\* The default value and the values of the scenario.
ScenValues == {DefaultVal} \cup {ScenSteps[k].x : k \in DOMAIN ScenSteps}

\* One Vector, its element sequence edited, no exception thrown, the values
\* of the scenario.
NextSeq == Edit("A", [cap |-> MaxCapSeq, obs |-> TRUE], ScenValues)

SpecSeq == Init /\ [][NextSeq]_vars

\* One Vector, its element sequence edited, also by insertions of its own
\* elements, no exception thrown.
NextAlias ==
    \/ Edit("A", [cap |-> MaxCapSeq, obs |-> TRUE], ScenValues)
    \/ \E j \in 0..MaxCapSeq :
            PushBackRef("A", j, NoFault, FALSE, [cap |-> MaxCapSeq, obs |-> TRUE])
    \/ \E i \in 0..MaxCapSeq, j \in 0..MaxCapSeq :
            InsertRef("A", i, j, NoFault, FALSE, [cap |-> MaxCapSeq, obs |-> TRUE])

SpecAlias == Init /\ [][NextAlias]_vars

\* ------------------------------------------------------------- claims

\* The slots of the block of Vector o that hold a live object, as offsets.
LiveSlots(o) ==
    {j \in 0..(vec[o].data_.capacity_ - 1) : Get(heap, vec[o].data_.buffer_, j) # Uninit}

\* C1: in every reachable state, whatever was called and whatever threw,
\* Size() <= Capacity() for every Vector.
C1_SizeWithinCapacity ==
    \A o \in VecIds : vec[o].size_ <= vec[o].data_.capacity_

\* A Vector filled to its capacity has just been moved from: the source is
\* left with size 0 and capacity 0, the target full.
C1_Witness ==
    /\ last.op = "Vector(move)"
    /\ vec[last.v].size_ = vec[last.v].data_.capacity_
    /\ vec[last.v].size_ >= 2
    /\ vec[last.other].alive

\* C2: in every reachable state, every RawMemory has capacity_ = 0 exactly
\* when its buffer_ is null.
C2_NullIffNoCapacity ==
    \A o \in Objs : (vec[o].data_.capacity_ = 0) <=> (vec[o].data_.buffer_ = Null)

\* A RawMemory that held a block has just been moved from, and is empty.
C2_Witness ==
    /\ last.op # "start"
    /\ last.op \in {"Vector(move)", "move="}
    /\ last.v # last.other
    /\ vec[last.v].data_.buffer_ # Null
    /\ vec[last.other].alive
    /\ vec[last.other].data_.buffer_ = Null

\* C3: after every call, returned or thrown out of, exactly the slots
\* [0, size) of a Vector's block hold live objects.
C3_LiveExactlyBelowSize ==
    \A o \in VecIds : vec[o].alive => LiveSlots(o) = 0..(vec[o].size_ - 1)

\* C4: in a run without exceptions, no block is freed while one of its slots
\* holds a live object.
C4_NoLiveObjectFreed == last.freedLive = 0

\* C5: when a construction of Vector(n) throws, no Vector was constructed,
\* every object built in the new block was destroyed before the block was
\* freed, and no block stays allocated.
C5_SizedConstructionRollsBack ==
    (last.op = "Vector(size)" /\ last.out = "throw") =>
        /\ vec[last.v] = NoVector
        /\ last.freedLive = 0
        /\ ~last.badFree
        /\ \A b \in Blocks : heap[b] # <<>> => \E o \in VecIds : vec[o].data_.buffer_ = b

\* The third construction of Vector(n), n >= 3, has thrown after two
\* objects were built.
C5_Witness ==
    /\ last.op = "Vector(size)" /\ last.out = "throw"
    /\ last.i >= 3 /\ last.f = 2

\* The elements of Vector o now, and after the step.
Now(o) == Elems(heap, vec, o)
After(o) == Elems(heap', vec', o)

\* C6, the copy: after B = A or Vector B(A), B has A's size and elements, a
\* copy-constructed B has capacity A.Size(), and B holds no block of A's.
C6_CopyEqualsSource ==
    (last.op \in {"Vector(copy)", "copy="} /\ last.out = "none") =>
        /\ vec[last.v].size_ = vec[last.other].size_
        /\ Now(last.v) = Now(last.other)
        /\ last.op = "Vector(copy)" => vec[last.v].data_.capacity_ = vec[last.other].size_
        /\ last.v # last.other =>
              \/ vec[last.v].data_.buffer_ = Null
              \/ vec[last.v].data_.buffer_ # vec[last.other].data_.buffer_

\* C6, the independence: a call on one Vector (a write through operator[],
\* PushBack, Insert, Erase, PopBack, Resize, Reserve, its construction or
\* destruction) leaves the size, capacity and elements of the other as they
\* were.
C6_OtherUntouched ==
    \A o \in VecIds :
        (last'.op = "call" /\ last'.v # o) =>
            /\ vec'[o].size_ = vec[o].size_
            /\ vec'[o].data_.capacity_ = vec[o].data_.capacity_
            /\ vec'[o].alive = vec[o].alive
            /\ After(o) = Now(o)

\* C6: a copy equals its source and is independent of it.
C6_CopyIsDeep == [](C6_CopyEqualsSource) /\ [][C6_OtherUntouched]_vars

\* A Vector has just been copy-constructed from one with spare capacity.
C6_Witness ==
    /\ last.op = "Vector(copy)" /\ last.out = "none"
    /\ vec[last.v].size_ >= 1
    /\ vec[last.other].data_.capacity_ > vec[last.other].size_

\* C7: B = move(A) or Vector B(move(A)), A and B distinct, leaves A with size
\* 0 and capacity 0 and B with the size, capacity and elements A had; a
\* Vector move-assigned to itself is unchanged.
C7_MoveStep ==
    /\ (last'.op \in {"Vector(move)", "move="} /\ last'.v # last'.other) =>
          /\ vec'[last'.other].size_ = 0
          /\ vec'[last'.other].data_.capacity_ = 0
          /\ vec'[last'.v].size_ = vec[last'.other].size_
          /\ vec'[last'.v].data_.capacity_ = vec[last'.other].data_.capacity_
          /\ After(last'.v) = Now(last'.other)
    /\ (last'.op = "move=" /\ last'.v = last'.other) =>
          /\ vec' = vec
          /\ heap' = heap

\* C7: every move construction and every move assignment between distinct
\* Vectors empties the source and hands its size, capacity and elements to
\* the target; a move assignment of a Vector to itself changes nothing.
C7_MoveTransfers == [][C7_MoveStep]_vars

\* A Vector has just been move-assigned two elements from another Vector.
C7_Witness ==
    /\ last.op = "move=" /\ last.v # last.other
    /\ vec[last.v].size_ >= 2
    /\ vec[last.other].alive /\ vec[last.other].data_.capacity_ = 0

\* C8: Insert(begin() + i, x) followed by Erase(begin() + i) gives back the
\* elements and the size the Vector had, whether the insertion reallocated
\* or not.
C8_InsertEraseRoundTrip ==
    rt.stage = 2 =>
        /\ Now(rt.v) = rt.orig
        /\ vec[rt.v].size_ = Len(rt.orig)

\* An insertion in place, before the last of at least two elements, has
\* been erased again.
C8_Witness ==
    /\ rt.stage = 2 /\ ~rt.realloc
    /\ rt.i > 0 /\ rt.i + 1 < Len(rt.orig)

\* The capacity doubling from 1 reaches first at or above n.
RECURSIVE Doubled(_, _)
Doubled(c, n) == IF c >= n THEN c ELSE Doubled(2 * c, n)

\* C9, from empty: a Vector built by PushBack alone has the capacity 0, 1,
\* 2, 4, 8, ... that doubling from 1 first reaches at or above its size.
C9_PushedCapacity ==
    \A o \in VecIds :
        (pushOnly[o] /\ vec[o].alive) =>
            vec[o].data_.capacity_ = IF vec[o].size_ = 0 THEN 0 ELSE Doubled(1, vec[o].size_)

\* C9, the step: a PushBack or Insert at size = capacity that returns sets
\* the capacity to max(1, 2 * size); one at size < capacity leaves the
\* capacity and the block as they were.
C9_GrowthStep ==
    last'.op \in {"PushBack", "Insert"} =>
        IF vec[last'.v].size_ = vec[last'.v].data_.capacity_
        THEN last'.out = "none" =>
                vec'[last'.v].data_.capacity_ = Max(1, 2 * vec[last'.v].size_)
        ELSE /\ vec'[last'.v].data_.capacity_ = vec[last'.v].data_.capacity_
             /\ ~last'.moved

\* C9: pushing from empty walks the capacities 1, 2, 4, 8; a reallocation
\* at size = capacity sets the capacity to max(1, 2 * size); an insertion
\* at size < capacity keeps the capacity and the block.
C9_GeometricGrowth == [](C9_PushedCapacity) /\ [][C9_GrowthStep]_vars

\* Five elements were pushed onto an empty Vector: its capacity went 1, 2,
\* 4, 8.
C9_Witness ==
    /\ pushOnly["A"] /\ vec["A"].size_ >= 5
    /\ last.op = "PushBack" /\ last.moved

\* The abstract sequence after the call recorded in c on the sequence s.
Abstract(c, s) ==
    CASE c.op = "Vector()"  -> <<>>
      [] c.op = "PushBack"  -> Append(s, c.x)
      [] c.op = "Insert"    -> InsertAt(s, c.i, c.x)
      [] c.op = "Erase"     -> RemoveAt(s, c.i)
      [] c.op = "PopBack"   -> SubSeq(s, 1, Len(s) - 1)
      [] c.op = "Resize"    -> IF c.i <= Len(s) THEN SubSeq(s, 1, c.i)
                               ELSE s \o [j \in 1..(c.i - Len(s)) |-> DefaultVal]
      [] OTHER -> s

\* C10, the step: each PushBack, Insert, Erase, PopBack and Resize that
\* returns leaves the elements the abstract operation leaves.
C10_RefinementStep ==
    (last'.op \in {"Vector()", "PushBack", "Insert", "Erase", "PopBack", "Resize"}
        /\ last'.out = "none") =>
        /\ After(last'.v) = Abstract(last', Now(last'.v))
        /\ vec'[last'.v].size_ = Len(Abstract(last', Now(last'.v)))

\* C10, the scenario: PushBack(1), PushBack(2), PushBack(3) give [1,2,3]
\* with capacity 4; Erase(begin() + 1) and Insert(begin() + 1, 5) then give
\* [1,5,3] with size 3 and capacity 4.
C10_Scenario ==
    /\ scen = 3 => Now("A") = <<1, 2, 3>> /\ vec["A"].data_.capacity_ = 4
    /\ scen = 4 => Now("A") = <<1, 3>> /\ vec["A"].size_ = 2
    /\ scen = 5 => /\ Now("A") = <<1, 5, 3>>
                   /\ vec["A"].size_ = 3
                   /\ vec["A"].data_.capacity_ = 4

\* C10: the elements read by index follow the abstract sequence through
\* every PushBack, Insert, Erase, PopBack and Resize, and the scenario ends
\* in [1,5,3] with size 3 and capacity 4.
C10_RefinesSequence == [](C10_Scenario) /\ [][C10_RefinementStep]_vars

\* The scenario has run to its end.
C10_Witness == scen = 5 /\ last.op = "Insert" /\ ~last.moved

\* C11, the step: a call that std::bad_alloc leaves (Reserve, a growing
\* Resize, a reallocating PushBack or Insert, a copy assignment or a
\* construction that needs a block) changes no Vector and no block: sizes,
\* capacities, blocks and every slot are those before the call.
C11_BadAllocStep ==
    last'.out = "bad_alloc" => (vec' = vec /\ heap' = heap)

\* C11: an allocation failure propagates and leaves the Vector as it was.
C11_AllocationFailureChangesNothing == [][C11_BadAllocStep]_vars

\* The allocation of a copy assignment onto a Vector that holds an element
\* and has too little capacity has failed.
C11_Witness ==
    /\ last.op = "copy=" /\ last.out = "bad_alloc"
    /\ vec[last.v].size_ >= 1
    /\ vec[last.other].size_ > vec[last.v].data_.capacity_

\* The blocks that are allocated and that no Vector holds.
Unowned(h, vc) == {b \in Blocks : h[b] # <<>> /\ \A o \in Objs : vc[o].data_.buffer_ # b}

\* C12, the step: when a PushBack or Insert at size = capacity, for an
\* element type transferred by copy, leaves by an exception of the new
\* element's construction or of a copy of the transfer, the Vector keeps
\* its size, capacity and elements, and the new block was freed with every
\* object built in it destroyed.
C12_ReallocationStep ==
    (/\ last'.op \in {"PushBack", "Insert"} /\ last'.out = "throw"
     /\ ~TransferByMove(nothrowMove)
     /\ vec[last'.v].size_ = vec[last'.v].data_.capacity_) =>
        /\ vec'[last'.v].size_ = vec[last'.v].size_
        /\ vec'[last'.v].data_.capacity_ = vec[last'.v].data_.capacity_
        /\ After(last'.v) = Now(last'.v)
        /\ Unowned(heap', vec') = {}
        /\ last'.freedLive = 0

\* C12: a reallocating insertion by copy that throws changes nothing and
\* leaks no object.
C12_ReallocationRollsBack == [][C12_ReallocationStep]_vars

\* C13, the step: when a copy assignment with rhs.Size() > Capacity() leaves
\* by an exception of the allocation or of an element copy of the temporary,
\* the Vector assigned to keeps its size, capacity and elements, the objects
\* built in the temporary were destroyed and its block freed: no Vector and
\* no block differs from before the call.
C13_CopyAssignStep ==
    (/\ last'.op = "copy=" /\ last'.out # "none"
     /\ vec[last'.other].size_ > vec[last'.v].data_.capacity_) =>
        /\ vec'[last'.v].size_ = vec[last'.v].size_
        /\ vec'[last'.v].data_.capacity_ = vec[last'.v].data_.capacity_
        /\ After(last'.v) = Now(last'.v)
        /\ vec'["rhs_copy"] = NoVector
        /\ last'.freedLive = 0 /\ ~last'.badFree
        /\ heap' = heap /\ vec' = vec

\* C13: a copy assignment that fails while it builds its temporary copy
\* leaves the Vector assigned to untouched and leaks nothing.
C13_CopyAssignRollsBack == [][C13_CopyAssignStep]_vars

\* The second element copy of the temporary has thrown after one object
\* was built in it; the Vector assigned to holds an element.
C13_Witness ==
    /\ last.op = "copy=" /\ last.out = "throw" /\ last.f = 1
    /\ vec[last.other].size_ > vec[last.v].data_.capacity_
    /\ vec[last.v].size_ >= 1

\* The RawMemory objects that hold block b.
Owners(b) == {o \in Objs : vec[o].data_.buffer_ = b}

\* C14: after every construction, move, move assignment, Swap, Reserve,
\* insertion and destruction, each allocated block is held by exactly one
\* RawMemory, no RawMemory holds a block that was freed, and no call freed
\* a block that was not allocated (a second time).
C14_ExclusiveOwnership ==
    /\ \A b \in Blocks : heap[b] # <<>> => Cardinality(Owners(b)) = 1
    /\ \A b \in Blocks : heap[b] = <<>> => Owners(b) = {}
    /\ ~last.badFree

\* A move assignment has freed the block of its target, which held an
\* object, and handed it the block of its source.
C14_Witness ==
    /\ last.op = "move=" /\ last.v # last.other
    /\ last.freedLive >= 1
    /\ vec[last.v].data_.buffer_ # Null
    /\ vec[last.other].data_.buffer_ = Null

\* C15, the step: Reserve(c) with c <= Capacity() changes nothing; Reserve(c)
\* with c > Capacity() that returns leaves the Vector with capacity c in
\* another block, its size and elements as they were, and frees the old
\* block with no live object in it.  The Vector is one whose block holds
\* live objects in the slots [0, size) only, as every Vector does that no
\* failed insertion in place (C3) has left otherwise.
C15_ReserveStep ==
    (last'.op = "Reserve" /\ LiveSlots(last'.v) = 0..(vec[last'.v].size_ - 1)) =>
        IF last'.i <= vec[last'.v].data_.capacity_
        THEN vec' = vec /\ heap' = heap /\ last'.out = "none" /\ ~last'.moved
        ELSE last'.out = "none" =>
                /\ vec'[last'.v].data_.capacity_ = last'.i
                /\ vec'[last'.v].size_ = vec[last'.v].size_
                /\ After(last'.v) = Now(last'.v)
                /\ last'.moved
                /\ last'.freedLive = 0 /\ ~last'.badFree
                /\ Unowned(heap', vec') = {}

C16_ReserveCopyStep ==
    (last'.op = "Reserve" /\ last'.out = "throw" /\ ~TransferByMove(nothrowMove)) =>
        /\ ~last'.moved
        /\ vec'[last'.v].size_ = vec[last'.v].size_
        /\ vec'[last'.v].data_.capacity_ = vec[last'.v].data_.capacity_
        /\ After(last'.v) = Now(last'.v)
        /\ last'.freedLive = 0 /\ ~last'.badFree
        /\ heap' = heap /\ vec' = vec

\* C16: Reserve by copy gives the strong guarantee.
C16_ReserveCopyRollsBack == [][C16_ReserveCopyStep]_vars

\* The second copy of a Reserve has thrown after one copy was made.
C16_Witness ==
    /\ last.op = "Reserve" /\ last.out = "throw" /\ last.f = 1
    /\ ~TransferByMove(nothrowMove)
    /\ vec[last.v].size_ >= 2

\* C17, the step: a copy assignment with rhs.Size() <= Capacity() that
\* returns keeps the block and the capacity, sets the size to rhs.Size() and
\* the elements to those of rhs, leaves rhs as it was and, when it shrinks,
\* leaves the slots [rhs.Size(), old size) without an object; a Vector
\* assigned to itself is unchanged.
C17_CopyAssignStep ==
    /\ (/\ last'.op = "copy=" /\ last'.out = "none" /\ last'.v # last'.other
         /\ vec[last'.other].size_ <= vec[last'.v].data_.capacity_) =>
            /\ ~last'.moved
            /\ vec'[last'.v].data_.capacity_ = vec[last'.v].data_.capacity_
            /\ vec'[last'.v].size_ = vec[last'.other].size_
            /\ After(last'.v) = Now(last'.other)
            /\ After(last'.other) = Now(last'.other)
            /\ \A j \in vec[last'.other].size_..(vec[last'.v].size_ - 1) :
                   Get(heap', vec'[last'.v].data_.buffer_, j) = Uninit
            /\ last'.freedLive = 0 /\ ~last'.badFree
    /\ (last'.op = "copy=" /\ last'.v = last'.other) =>
            vec' = vec /\ heap' = heap /\ last'.out = "none"

\* C17: copy assignment within the capacity assigns in place.
C17_CopyAssignInPlace == [][C17_CopyAssignStep]_vars

\* A copy assignment has assigned in place onto a Vector that has spare
\* capacity after it.
C17_Witness ==
    /\ last.op = "copy=" /\ last.out = "none" /\ last.v # last.other
    /\ ~last.moved
    /\ vec[last.v].size_ >= 1
    /\ vec[last.v].data_.capacity_ > vec[last.v].size_
    /\ Now(last.v) # <<DefaultVal>>

\* C18, the step: a Resize(m) that returns leaves Size() = m and the first
\* min(old size, m) elements as they were; for m < size the slots [m, size)
\* hold no object afterwards and the block and capacity are kept; for
\* m >= size the capacity is max(old capacity, m) and the elements at
\* [old size, m) are value-initialized.
C18_ResizeStep ==
    (last'.op = "Resize" /\ last'.out = "none") =>
        LET o == last'.v
            m == last'.i
            old == vec[o].size_
            keep == Min(old, m)
        IN  /\ vec'[o].size_ = m
            /\ SubSeq(After(o), 1, keep) = SubSeq(Now(o), 1, keep)
            /\ IF m < old
               THEN /\ vec'[o].data_.capacity_ = vec[o].data_.capacity_
                    /\ ~last'.moved
                    /\ \A j \in m..(old - 1) : Get(heap', vec'[o].data_.buffer_, j) = Uninit
               ELSE /\ vec'[o].data_.capacity_ = Max(vec[o].data_.capacity_, m)
                    /\ \A j \in (old + 1)..m : After(o)[j] = DefaultVal

\* C18: Resize sets the size, keeps the common prefix, destroys the tail
\* or value-initializes the new elements.
C18_ResizeEffect == [][C18_ResizeStep]_vars

\* A Resize has grown a Vector past its capacity: it kept a first element
\* that is not the default value and added a value-initialized last one.
C18_Witness ==
    /\ last.op = "Resize" /\ last.out = "none" /\ last.moved
    /\ vec[last.v].size_ >= 2
    /\ Now(last.v)[1] = MaxVal
    /\ Now(last.v)[vec[last.v].size_] = DefaultVal

\* C19: no call made within its preconditions (index < Size() for
\* operator[], begin() <= pos <= end() for Insert, begin() <= pos < end() for
\* Erase, Size() > 0 for PopBack) evaluates an assert of RawMemory that does
\* not hold: offset <= capacity_ in operator+, index < capacity_ in
\* operator[].
C19_AssertionsHold == ~last.asserted

\* An insertion in place before the last element has returned: it went
\* through data_[size_ - 1] and data_[index].
C19_Witness ==
    /\ last.op = "Insert" /\ last.out = "none" /\ ~last.moved
    /\ last.i + 1 < vec[last.v].size_
    /\ vec[last.v].size_ = vec[last.v].data_.capacity_

\* C20, the step: Insert(begin() + i, v[j]) and PushBack(v[j]) that return
\* leave the elements of v with the value v[j] had before the call inserted
\* at i (at the end for PushBack) and the others in their order, whether
\* the insertion ran in place or reallocated.
C20_AliasStep ==
    (last'.op \in {"InsertRef", "PushBackRef"} /\ last'.out = "none") =>
        LET o == last'.v
            i == IF last'.op = "InsertRef" THEN last'.i ELSE vec[o].size_
            x == Now(o)[last'.x + 1]
        IN  /\ After(o) = InsertAt(Now(o), i, x)
            /\ vec'[o].size_ = vec[o].size_ + 1

\* C20: inserting an element of the Vector itself inserts the value it had.
C20_InsertOwnElement == [][C20_AliasStep]_vars

\* An insertion in place has inserted v[j] at i < j: the element referred
\* to was shifted by the insertion, and differs from the one that was at i.
C20_Witness ==
    /\ last.op = "InsertRef" /\ last.out = "none" /\ ~last.moved
    /\ last.i < last.x
    /\ Now(last.v)[last.i + 1] = Now(last.v)[last.x + 2]
    /\ Now(last.v)[last.i + 1] # Now(last.v)[last.i + 2]

=============================================================================
